---- MODULE Spec2Model ----
(***************************************************************************)
(* Model of networks/mcts.py: the class MCTS (statistics store, recursive  *)
(* search with root widening / progressive widening / PUCT selection,      *)
(* backup by incremental mean, get_policy and get_action).                 *)
(*                                                                         *)
(* The recursion of search is unfolded into an explicit call stack: one    *)
(* step per line group of the method body (tree policy + generate +        *)
(* recursive call on the way down, backup on the way up).  Execution is    *)
(* single threaded, so no other operation starts while a call is active.   *)
(*                                                                         *)
(* Returns are exact rationals.  A return value q is held as the integer   *)
(* q * Scale, with Scale = GammaDen^MaxDepth, so that the discounting      *)
(* r + gamma * q stays integral; Q is a reduced fraction of such units.    *)
(***************************************************************************)
EXTENDS Integers, Sequences, FiniteSets, TLC

\* ---------------------------------------------------------------- bounds
\* MaxDepth: largest depth a caller passes; MaxVisits: generate calls in a
\* run; MaxSims: largest n passed to get_action; RootVisits: generate calls
\* in a run made of root searches only.
MaxDepth == 2
MaxVisits == 3
MaxSims == 2
RootVisits == 4

States == {1, 2}
Actions == {1, 2}
NumSims == 0..MaxSims
Depths == 0..MaxDepth
RootCaps == {1}

\* ------------------------------------------------- constructor parameters
\* gamma = GammaNum / GammaDen, exploration_weight = CNum / CDen,
\* alpha = 1/2 (the default), k = KWiden
GammaNum == 1
GammaDen == 2
CNum == 1
CDen == 10
KWiden == 1
KMaxDefault == 10

RECURSIVE Pow(_, _)
Pow(b, e) == IF e = 0 THEN 1 ELSE b * Pow(b, e - 1)

Scale == Pow(GammaDen, MaxDepth)

\* ------------------------------------------------------ exact arithmetic
Abs(x) == IF x < 0 THEN -x ELSE x

RECURSIVE GCD(_, _)
GCD(a, b) == IF b = 0 THEN a ELSE GCD(b, a % b)

\* the fraction n/d (d > 0) in lowest terms
Frac(n, d) ==
  LET g == GCD(Abs(n), d)
  IN  IF g = 0 THEN [n |-> 0, d |-> 1] ELSE [n |-> n \div g, d |-> d \div g]

Zero == [n |-> 0, d |-> 1]

FracLess(x, y) == x.n * y.d < y.n * x.d

\* ------------------------------------------------------------ the store
VARIABLES
  N,         \* (state, action) -> visits            (defaultdict(int))
  Q,         \* (state, action) -> mean return       (defaultdict(float))
  Ns,        \* state -> total visits                (defaultdict(int))
  children,  \* state -> list of actions; its DOMAIN is the set of keys present
  pc,        \* "idle", "visit", "return", "ga" or "done"
  cur,       \* arguments of the search call about to run its body
  stack,     \* frames of the search calls waiting for their recursive call
  retq,      \* value returned by the search call that just finished
  ga,        \* the get_action call in progress
  last,      \* how the last top-level operation ended
  call,      \* the current top-level search call and what it did so far
  snap,      \* N, Q, Ns as they were when the current top-level search began
  visits,    \* number of generate calls made so far
  sumq,      \* (state, action) -> sum of the returns backed up to it
  sampled,   \* state -> actions sample_action() returned there
  rootCap    \* state -> the largest k_max it was visited with as root, 0 if none

ghost == <<sumq, sampled, rootCap>>
vars == <<N, Q, Ns, children, pc, cur, stack, retq, ga, last, call, snap,
          visits, sumq, sampled, rootCap>>

Pairs == States \X Actions

\* self.children[s]: the list at s, the empty list when the key is absent
ChildrenOf(ch, s) == IF s \in DOMAIN ch THEN ch[s] ELSE <<>>

\* reading self.children[s] on a defaultdict(list) inserts a missing key
Touch(ch, s) ==
  IF s \in DOMAIN ch THEN ch
  ELSE [t \in DOMAIN ch \cup {s} |-> IF t = s THEN <<>> ELSE ch[t]]

InList(a, l) == \E i \in 1..Len(l) : l[i] = a

NoFrame == [s |-> 0, d |-> 0, is_root |-> FALSE, k_max |-> 0]
NoGa == [active |-> FALSE, s |-> 0, d |-> 0, n |-> 0, det |-> FALSE, ran |-> 0]
NoCall == [d |-> 0, gens |-> 0, fails |-> 0, backs |-> 0, leafs |-> 0, dups |-> 0]
NoLast == [op |-> "none", status |-> "none", err |-> "none", action |-> 0,
           zerodiv |-> FALSE, nan |-> FALSE]

ResetN == [p \in Pairs |-> 0]
ResetQ == [p \in Pairs |-> Zero]
ResetNs == [s \in States |-> 0]
ResetChildren == << >>

Init ==
  /\ N = ResetN
  /\ Q = ResetQ
  /\ Ns = ResetNs
  /\ children = ResetChildren
  /\ pc = "idle"
  /\ cur = NoFrame
  /\ stack = <<>>
  /\ retq = 0
  /\ ga = NoGa
  /\ last = NoLast
  /\ call = NoCall
  /\ snap = [N |-> ResetN, Q |-> ResetQ, Ns |-> ResetNs]
  /\ visits = 0
  /\ sumq = [p \in Pairs |-> 0]
  /\ sampled = [s \in States |-> {}]
  /\ rootCap = [s \in States |-> 0]

\* ---------------------------------------------------------- tree policy
\* _puct(s, a) > _puct(s, b), decided exactly.  With X = Q[s,a] - Q[s,b] and
\* Y = c * (1/(N[s,b]+1) - 1/(N[s,a]+1)) the comparison is X > Y * sqrt(Ns[s]);
\* P and R are X and Y over a common positive denominator.
ScoreGreater(n, q, nsv, s, a, b) ==
  LET qa == q[<<s, a>>]
      qb == q[<<s, b>>]
      xn == qa.n * qb.d - qb.n * qa.d
      xd == qa.d * qb.d
      yn == Scale * CNum * (n[<<s, a>>] - n[<<s, b>>])
      yd == CDen * (n[<<s, a>>] + 1) * (n[<<s, b>>] + 1)
      g == GCD(Abs(xn * yd), Abs(yn * xd))
      P == IF g = 0 THEN 0 ELSE (xn * yd) \div g
      R == IF g = 0 THEN 0 ELSE (yn * xd) \div g
  IN  IF nsv[s] = 0 \/ R = 0 THEN P > 0
      ELSE IF P >= 0 /\ R < 0 THEN TRUE
      ELSE IF P <= 0 /\ R > 0 THEN FALSE
      ELSE IF P > 0 THEN P * P > R * R * nsv[s]
      ELSE P * P < R * R * nsv[s]

\* lines 51-52: max(children[s], key=...) returns the first element whose
\* score is maximal; it is applied to a non-empty list only (on an empty one
\* max raises, see SelectEmpty)
puct_select(n, q, nsv, ch, s) ==
  LET l == ch[s]
      first == CHOOSE i \in 1..Len(l) :
                 /\ \A j \in 1..Len(l) : ~ScoreGreater(n, q, nsv, s, l[j], l[i])
                 /\ \A j \in 1..(i - 1) : ScoreGreater(n, q, nsv, s, l[i], l[j])
  IN  l[first]

\* line 60: widen the root while it has fewer than k_max children
RootExpand(ch, s, k_max) ==
  IF s \notin DOMAIN ch THEN TRUE ELSE Len(ch[s]) < k_max

\* variant of NonRootExpand comparing with <= instead of <
NonRootExpandLoose(ch, nsv, s) ==
  IF s \notin DOMAIN ch THEN TRUE
  ELSE Len(ch[s]) * Len(ch[s]) <= KWiden * KWiden * nsv[s]

\* lines 67-68: m = k * Ns[s] ** alpha with alpha = 1/2, widen while
\* len(children[s]) < m, i.e. len^2 < k^2 * Ns[s]
NonRootExpand(ch, nsv, s) ==
  IF s \notin DOMAIN ch THEN TRUE
  ELSE Len(ch[s]) * Len(ch[s]) < KWiden * KWiden * nsv[s]

WantsExpand(ch, nsv, f) ==
  IF f.is_root THEN RootExpand(ch, f.s, f.k_max) ELSE NonRootExpand(ch, nsv, f.s)

\* variant of Widen without the membership test of lines 62 / 70
WidenAlways(ch, s, a) == [Touch(ch, s) EXCEPT ![s] = Append(@, a)]

\* lines 62-63 / 70-71: append the sampled action unless it is already there
Widen(ch, s, a) ==
  LET c == Touch(ch, s)
  IN  IF InList(a, c[s]) THEN c ELSE [c EXCEPT ![s] = Append(@, a)]

\* ---------------------------------------------------------------- backup
\* variant of IncMean dividing by N + 1
IncMeanStale(qold, q, n) ==
  Frac(qold.n * (n + 1) + (q * qold.d - qold.n), qold.d * (n + 1))

\* line 77 after line 76: Q += (q - Q) / N, with N already incremented to n
IncMean(qold, q, n) == Frac(qold.n * n + (q * qold.d - qold.n), qold.d * n)

\* line 75: q = r + gamma * (value of the recursive call), in units of 1/Scale
Return(r, v) == r * Scale + (GammaNum * v) \div GammaDen

\* variant of Backup without line 78
BackupNoTotal(st, s, a, q) ==
  LET n1 == st.N[<<s, a>>] + 1
  IN  [N |-> [st.N EXCEPT ![<<s, a>>] = n1],
       Q |-> [st.Q EXCEPT ![<<s, a>>] = IncMean(@, q, n1)],
       Ns |-> st.Ns]

\* lines 76-78 on the statistics st = [N, Q, Ns]
Backup(st, s, a, q) ==
  LET n1 == st.N[<<s, a>>] + 1
  IN  [N |-> [st.N EXCEPT ![<<s, a>>] = n1],
       Q |-> [st.Q EXCEPT ![<<s, a>>] = IncMean(@, q, n1)],
       Ns |-> [st.Ns EXCEPT ![s] = @ + 1]]

\* variant of Propagate in which every pending call backs up its own reward
\* while the exception passes through it
RECURSIVE PropagateBackingUp(_, _)
PropagateBackingUp(st, stk) ==
  IF stk = <<>> THEN st
  ELSE PropagateBackingUp(Backup(st, Head(stk).s, Head(stk).a,
                                 Return(Head(stk).r, 0)), Tail(stk))

\* An exception raised below the pending frames stk passes through lines
\* 75-79 of each of them: there is no handler, so the statistics stay as is.
Propagate(st, stk) == st

\* line 41-43: the leaf value of the base class
Value(s) == 0

\* variant of IsLeaf testing d < 0
IsLeafStrict(d) == d < 0

\* line 56
IsLeaf(d) == d <= 0

\* The domain: generate(a) may lead to any state (so every transition graph,
\* cyclic ones included, and every stochastic one) or raise; the reward is
\* that of the state reached.
Reward(next_state) == next_state - 1

\* ------------------------------------------------------ policy extraction
RECURSIVE SumSeq(_)
SumSeq(l) == IF l = <<>> THEN 0 ELSE Head(l) + SumSeq(Tail(l))

\* lines 83-89.  norm_counts[i] is the pair count/total; a zero total makes
\* every entry 0/0 (NaN); max_q is the largest Q, 0 when there is no action.
get_policy(n, q, ch, s) ==
  LET actions == Touch(ch, s)[s]
      visit_counts == [i \in 1..Len(actions) |-> n[<<s, actions[i]>>]]
      total == SumSeq(visit_counts)
      q_values == [i \in 1..Len(actions) |-> q[<<s, actions[i]>>]]
      best == CHOOSE i \in 1..Len(actions) :
                \A j \in 1..Len(actions) : ~FracLess(q_values[i], q_values[j])
  IN  [actions |-> actions,
       norm_counts |-> [i \in 1..Len(actions) |-> [n |-> visit_counts[i], d |-> total]],
       max_q |-> IF actions = <<>> THEN Zero ELSE q_values[best],
       zerodiv |-> total = 0]

IsNaN(x) == x.d = 0

\* variant of ArgMax returning the last largest entry
ArgMaxLast(l) ==
  IF \E i \in 1..Len(l) : IsNaN(l[i])
  THEN CHOOSE i \in 1..Len(l) : IsNaN(l[i]) /\ \A j \in 1..(i - 1) : ~IsNaN(l[j])
  ELSE CHOOSE i \in 1..Len(l) :
         /\ \A j \in 1..Len(l) : ~FracLess(l[i], l[j])
         /\ \A j \in (i + 1)..Len(l) : FracLess(l[j], l[i])

\* np.argmax: the first NaN if there is one, else the first largest entry
ArgMax(l) ==
  IF \E i \in 1..Len(l) : IsNaN(l[i])
  THEN CHOOSE i \in 1..Len(l) : IsNaN(l[i]) /\ \A j \in 1..(i - 1) : ~IsNaN(l[j])
  ELSE CHOOSE i \in 1..Len(l) :
         /\ \A j \in 1..Len(l) : ~FracLess(l[i], l[j])
         /\ \A j \in 1..(i - 1) : FracLess(l[j], l[i])

\* ------------------------------------------------------------- operations
Stats == [N |-> N, Q |-> Q, Ns |-> Ns]

Running(op) == [NoLast EXCEPT !.op = op, !.status = "running"]

Begin(s, d, is_root, k_max) ==
  /\ cur' = [s |-> s, d |-> d, is_root |-> is_root, k_max |-> k_max]
  /\ call' = [NoCall EXCEPT !.d = d]
  /\ snap' = Stats
  /\ pc' = "visit"
  /\ UNCHANGED <<N, Q, Ns, children, stack, retq, visits, ghost>>

SearchWithin(budget, s, d, is_root, k_max) ==
  /\ pc = "idle"
  /\ visits + d <= budget
  /\ Begin(s, d, is_root, k_max)
  /\ last' = Running("search")
  /\ UNCHANGED ga

\* a caller invokes search(s, d, is_root, k_max)
Search(s, d, is_root, k_max) == SearchWithin(MaxVisits, s, d, is_root, k_max)

\* a caller invokes search(s, d, True, k_max)
RootSearch(s, d, k_max) == SearchWithin(RootVisits, s, d, TRUE, k_max)

\* lines 56-57
Leaf ==
  /\ pc = "visit"
  /\ IsLeaf(cur.d)
  /\ retq' = Value(cur.s) * Scale
  /\ call' = [call EXCEPT !.leafs = @ + 1]
  /\ pc' = "return"
  /\ UNCHANGED <<N, Q, Ns, children, cur, stack, ga, last, snap, visits, ghost>>

Visited ==
  /\ rootCap' = IF cur.is_root /\ cur.k_max > rootCap[cur.s]
                THEN [rootCap EXCEPT ![cur.s] = cur.k_max]
                ELSE rootCap
  /\ UNCHANGED sumq

\* lines 74-75 with generate returning (next_state, r): the call waits for
\* search(next_state, d-1, False), whose k_max is the default
Descend(a, ch, next_state, dup) ==
  /\ children' = ch
  /\ stack' = <<[s |-> cur.s, a |-> a, r |-> Reward(next_state), d |-> cur.d]>> \o stack
  /\ cur' = [s |-> next_state, d |-> cur.d - 1, is_root |-> FALSE,
             k_max |-> KMaxDefault]
  /\ call' = [call EXCEPT !.gens = @ + 1, !.dups = @ + dup]
  /\ visits' = visits + 1
  /\ pc' = "visit"
  /\ Visited
  /\ UNCHANGED <<N, Q, Ns, retq, ga, last, snap>>

\* an exception leaves search: every pending call is abandoned, and so is the
\* get_action loop that made the call
Abort(err, ch, gen, dup) ==
  /\ children' = ch
  /\ LET st == Propagate(Stats, stack)
     IN  N' = st.N /\ Q' = st.Q /\ Ns' = st.Ns
  /\ stack' = <<>>
  /\ cur' = NoFrame
  /\ call' = [call EXCEPT !.gens = @ + gen, !.fails = @ + gen, !.dups = @ + dup]
  /\ last' = [last EXCEPT !.status = "raised", !.err = err]
  /\ ga' = [ga EXCEPT !.active = FALSE]
  /\ pc' = "done"
  /\ visits' = visits + gen
  /\ Visited
  /\ UNCHANGED <<retq, snap>>

InBody == pc = "visit" /\ ~IsLeaf(cur.d)

\* lines 61-63 / 69-71, then generate succeeds
Expand(a, next_state) ==
  /\ InBody
  /\ WantsExpand(children, Ns, cur)
  /\ sampled' = [sampled EXCEPT ![cur.s] = @ \cup {a}]
  /\ Descend(a, Widen(children, cur.s, a), next_state,
             IF InList(a, ChildrenOf(children, cur.s)) THEN 1 ELSE 0)

\* lines 61-63 / 69-71, then generate raises
ExpandFail(a) ==
  /\ InBody
  /\ WantsExpand(children, Ns, cur)
  /\ sampled' = [sampled EXCEPT ![cur.s] = @ \cup {a}]
  /\ Abort("GenerateError", Widen(children, cur.s, a), 1,
           IF InList(a, ChildrenOf(children, cur.s)) THEN 1 ELSE 0)

\* lines 65 / 73, then generate succeeds
Select(next_state) ==
  /\ InBody
  /\ ~WantsExpand(children, Ns, cur)
  /\ children[cur.s] # <<>>
  /\ UNCHANGED sampled
  /\ Descend(puct_select(N, Q, Ns, children, cur.s), children, next_state, 0)

\* lines 65 / 73, then generate raises
SelectFail ==
  /\ InBody
  /\ ~WantsExpand(children, Ns, cur)
  /\ children[cur.s] # <<>>
  /\ UNCHANGED sampled
  /\ Abort("GenerateError", children, 1, 0)

\* lines 65 / 73 on a key whose list is empty: max() raises ValueError
SelectEmpty ==
  /\ InBody
  /\ ~WantsExpand(children, Ns, cur)
  /\ children[cur.s] = <<>>
  /\ UNCHANGED sampled
  /\ Abort("ValueError:max", children, 0, 0)

\* lines 75-79 of the innermost waiting call
BackupStep ==
  /\ pc = "return"
  /\ stack # <<>>
  /\ LET f == Head(stack)
         q == Return(f.r, retq)
         st == Backup(Stats, f.s, f.a, q)
     IN  /\ N' = st.N /\ Q' = st.Q /\ Ns' = st.Ns
         /\ retq' = q
         /\ sumq' = [sumq EXCEPT ![<<f.s, f.a>>] = @ + q]
  /\ stack' = Tail(stack)
  /\ call' = [call EXCEPT !.backs = @ + 1]
  /\ UNCHANGED <<children, pc, cur, ga, last, snap, visits, sampled, rootCap>>

\* the outermost call returns, to the caller or to the loop in get_action
SearchReturns ==
  /\ pc = "return"
  /\ stack = <<>>
  /\ cur' = NoFrame
  /\ retq' = 0
  /\ call' = NoCall
  /\ snap' = Stats
  /\ IF ga.active
     THEN /\ pc' = "ga"
          /\ ga' = [ga EXCEPT !.ran = @ + 1]
          /\ UNCHANGED last
     ELSE /\ pc' = "done"
          /\ last' = [last EXCEPT !.status = "returned"]
          /\ UNCHANGED ga
  /\ UNCHANGED <<N, Q, Ns, children, stack, visits, ghost>>

\* lines 81-89 called by a caller
GetPolicy(s) ==
  /\ pc = "idle"
  /\ LET pol == get_policy(N, Q, children, s)
     IN  last' = [Running("get_policy") EXCEPT
                    !.status = "returned", !.zerodiv = pol.zerodiv,
                    !.nan = pol.zerodiv /\ pol.actions # <<>>]
  /\ children' = Touch(children, s)
  /\ pc' = "done"
  /\ UNCHANGED <<N, Q, Ns, cur, stack, retq, ga, call, snap, visits, ghost>>

\* line 91: a caller invokes get_action(s, d, n, deterministic).  The flag
\* deterministic is read at line 96 only; its value is drawn there, by the
\* choice between GaArgmax and GaChoice, and recorded in ga.det.
GetAction(s, d, n) ==
  /\ pc = "idle"
  /\ visits + n * d <= MaxVisits
  /\ ga' = [NoGa EXCEPT !.active = TRUE, !.s = s, !.d = d, !.n = n]
  /\ last' = Running("get_action")
  /\ pc' = "ga"
  /\ UNCHANGED <<N, Q, Ns, children, cur, stack, retq, call, snap, visits, ghost>>

\* lines 92-93: one more self.search(s, d)
GaSim ==
  /\ pc = "ga"
  /\ ga.ran < ga.n
  /\ Begin(ga.s, ga.d, TRUE, KMaxDefault)
  /\ UNCHANGED <<ga, last>>

GaEnd(det, status, err, action, pol) ==
  /\ last' = [last EXCEPT !.status = status, !.err = err, !.action = action,
                          !.zerodiv = pol.zerodiv,
                          !.nan = pol.zerodiv /\ pol.actions # <<>>]
  /\ children' = Touch(children, ga.s)
  /\ ga' = [ga EXCEPT !.active = FALSE, !.det = det]
  /\ pc' = "done"
  /\ UNCHANGED <<N, Q, Ns, cur, stack, retq, call, snap, visits, ghost>>

\* lines 94-98 (deterministic=True): np.argmax raises ValueError on an empty
\* array
GaArgmax ==
  /\ pc = "ga"
  /\ ga.ran >= ga.n
  /\ LET pol == get_policy(N, Q, children, ga.s)
     IN  IF pol.actions = <<>>
         THEN GaEnd(TRUE, "raised", "ValueError:argmax", 0, pol)
         ELSE GaEnd(TRUE, "returned", "none",
                    pol.actions[ArgMax(pol.norm_counts)], pol)

\* lines 94, 100-101 (deterministic=False): np.random.choice raises ValueError on an empty range
\* and on probabilities that contain NaN
GaChoice ==
  /\ pc = "ga"
  /\ ga.ran >= ga.n
  /\ LET pol == get_policy(N, Q, children, ga.s)
     IN  IF pol.actions = <<>> \/ pol.zerodiv
         THEN GaEnd(FALSE, "raised", "ValueError:choice", 0, pol)
         ELSE \E i \in 1..Len(pol.actions) :
                /\ pol.norm_counts[i].n > 0
                /\ GaEnd(FALSE, "returned", "none", pol.actions[i], pol)

\* lines 35-39
Reset ==
  /\ pc = "idle"
  /\ N' = ResetN
  /\ Q' = ResetQ
  /\ Ns' = ResetNs
  /\ children' = ResetChildren
  /\ snap' = [N |-> ResetN, Q |-> ResetQ, Ns |-> ResetNs]
  /\ last' = [NoLast EXCEPT !.op = "reset", !.status = "returned"]
  /\ UNCHANGED call
  /\ sumq' = [p \in Pairs |-> 0]
  /\ sampled' = [s \in States |-> {}]
  /\ rootCap' = [s \in States |-> 0]
  /\ pc' = "done"
  /\ UNCHANGED <<cur, stack, retq, ga, visits>>

\* control is back with the caller, which has taken the result
Continue ==
  /\ pc = "done"
  /\ pc' = "idle"
  /\ last' = NoLast
  /\ ga' = NoGa
  /\ call' = NoCall
  /\ snap' = Stats
  /\ UNCHANGED <<N, Q, Ns, children, cur, stack, retq, visits, ghost>>

Next ==
  \/ \E s \in States, d \in Depths, is_root \in BOOLEAN, k_max \in RootCaps :
       Search(s, d, is_root, k_max)
  \/ Leaf
  \/ \E a \in Actions, next_state \in States : Expand(a, next_state)
  \/ \E a \in Actions : ExpandFail(a)
  \/ \E next_state \in States : Select(next_state)
  \/ SelectFail
  \/ SelectEmpty
  \/ BackupStep
  \/ SearchReturns
  \/ \E s \in States : GetPolicy(s)
  \/ \E s \in States, d \in Depths, n \in NumSims : GetAction(s, d, n)
  \/ GaSim
  \/ GaArgmax
  \/ GaChoice
  \/ Reset
  \/ Continue

Spec == Init /\ [][Next]_vars

\* runs in which every call is a root search: search(s, d, True, k_max)
NextRoot ==
  \/ \E s \in States, d \in Depths, k_max \in RootCaps : RootSearch(s, d, k_max)
  \/ Leaf
  \/ \E a \in Actions, next_state \in States : Expand(a, next_state)
  \/ \E a \in Actions : ExpandFail(a)
  \/ \E next_state \in States : Select(next_state)
  \/ SelectFail
  \/ BackupStep
  \/ SearchReturns
  \/ Continue

SpecRoot == Init /\ [][NextRoot]_vars

\* ================================================================ claims
Kids(s) == ChildrenOf(children, s)

NoDup(l) == \A i, j \in 1..Len(l) : l[i] = l[j] => i = j

IsPrefix(l, m) == Len(l) <= Len(m) /\ \A i \in 1..Len(l) : l[i] = m[i]

\* k * n^alpha rounded up, for alpha = 1/2: the least c with c^2 >= k^2 * n
CeilWiden(n) ==
  CHOOSE c \in 0..(KWiden * n) :
    /\ c * c >= KWiden * KWiden * n
    /\ \A b \in 0..(c - 1) : b * b < KWiden * KWiden * n

\* C1: for every state s, Ns[s] is the sum of N[(s,a)] over the actions a in
\* children[s], and every action with N[(s,a)] > 0 is in children[s].
C1_VisitTotal ==
  \A s \in States :
    /\ Ns[s] = SumSeq([i \in 1..Len(Kids(s)) |-> N[<<s, Kids(s)[i]>>]])
    /\ \A a \in Actions : N[<<s, a>>] > 0 => InList(a, Kids(s))

\* a state with two visited actions and at least three visits
C1_Witness ==
  \E s \in States :
    /\ Len(Kids(s)) = 2
    /\ \A a \in Actions : N[<<s, a>>] > 0
    /\ Ns[s] >= 3

\* C2: a state searched as root with cap k_max never has more than k_max
\* children, also when transitions lead back to it (checked in runs made of
\* root searches only).
C2_RootCap ==
  \A s \in States : rootCap[s] # 0 => Len(Kids(s)) <= rootCap[s]

\* C3: policy extraction never divides by a zero visit total, never returns
\* NaN weights and never ends in an unhandled error of the extraction itself.
C3_Guarded ==
  last.op \in {"get_policy", "get_action"} =>
    /\ ~last.zerodiv
    /\ ~last.nan
    /\ last.err \notin {"ValueError:argmax", "ValueError:choice"}

\* C4 as stated: for a state never visited as root, len(children[s]) never
\* decreases, and between calls it is at most k * Ns[s]^alpha rounded up and at
\* most the number of distinct actions sampled at s.
C4_Original ==
  [][last'.op # "reset" =>
       \A s \in States : rootCap'[s] = 0 =>
         /\ Len(ChildrenOf(children', s)) >= Len(Kids(s))
         /\ pc' = "done" =>
              /\ Len(ChildrenOf(children', s)) <= CeilWiden(Ns'[s])
              /\ Len(ChildrenOf(children', s)) <= Cardinality(sampled'[s])]_vars

\* C4 amended: the same, with the bound k * Ns[s]^alpha rounded up holding
\* once Ns[s] >= 1 and the bound 1 holding while Ns[s] = 0 (the first visit
\* appends its action before generate runs and before any backup).
C4_Widening ==
  [][last'.op # "reset" =>
       \A s \in States : rootCap'[s] = 0 =>
         /\ Len(ChildrenOf(children', s)) >= Len(Kids(s))
         /\ Len(ChildrenOf(children', s)) <=
              (IF Ns'[s] = 0 THEN 1 ELSE CeilWiden(Ns'[s]))
         /\ Len(ChildrenOf(children', s)) <= Cardinality(sampled'[s])]_vars

\* a state never visited as root that was widened to two children
C4_Witness ==
  \E s \in States :
    /\ rootCap[s] = 0
    /\ Len(Kids(s)) = 2
    /\ Ns[s] >= 2
    /\ pc = "idle"

\* C5: Q[(s,a)] is the arithmetic mean of the returns backed up to (s,a):
\* N[(s,a)] * Q[(s,a)] equals their sum.
C5_IncrementalMean ==
  \A p \in Pairs : N[p] * Q[p].n = sumq[p] * Q[p].d

\* two different returns were backed up to one pair within one simulation
C5_Witness ==
  \E p \in Pairs :
    /\ N[p] = 2
    /\ call.backs = 2
    /\ pc = "return"
    /\ retq * Q[p].d # Q[p].n

\* C6: a search call of depth d makes exactly d nested applications: on the
\* way down the k-th pending call has depth d - k and one generate call was
\* made per pending call; it returns after the depth <= 0 leaf was reached
\* once, d generate calls and d backups.
C6_Termination ==
  /\ pc = "visit" =>
       /\ cur.d = call.d - Len(stack)
       /\ cur.d >= 0
       /\ call.gens = Len(stack)
       /\ call.backs = 0
       /\ call.leafs = 0
  /\ pc = "return" =>
       /\ call.leafs = 1
       /\ call.gens = call.d
       /\ call.backs = call.d - Len(stack)

\* a search of the largest depth is about to return to its caller
C6_Witness ==
  /\ pc = "return"
  /\ stack = <<>>
  /\ call.d = MaxDepth
  /\ call.backs = MaxDepth

\* the first index of l at which the visit count of s is largest
FirstMostVisited(s, l) ==
  CHOOSE i \in 1..Len(l) :
    /\ \A j \in 1..Len(l) : N[<<s, l[j]>>] <= N[<<s, l[i]>>]
    /\ \A j \in 1..(i - 1) : N[<<s, l[j]>>] < N[<<s, l[i]>>]

\* C7: get_action(s, d, n, deterministic=True) with d >= 1 and n >= 1 returns
\* only after exactly n root searches, and returns the first action of
\* children[s] whose visit count is largest; an exception can only come from
\* one of the searches, not from the extraction.
C7_DeterministicAction ==
  (pc = "done" /\ last.op = "get_action" /\ ga.d >= 1 /\ ga.n >= 1) =>
    /\ (last.status = "returned" /\ ga.det) =>
         /\ ga.ran = ga.n
         /\ Kids(ga.s) # <<>>
         /\ last.action = Kids(ga.s)[FirstMostVisited(ga.s, Kids(ga.s))]
    /\ last.status = "raised" =>
         /\ ga.ran < ga.n
         /\ last.err \in {"GenerateError", "ValueError:max"}

\* get_action returned the first of two equally visited actions
C7_Witness ==
  /\ pc = "done"
  /\ last.op = "get_action"
  /\ last.status = "returned"
  /\ ga.det
  /\ ga.d >= 1
  /\ ga.n >= 2
  /\ Len(Kids(ga.s)) = 2
  /\ N[<<ga.s, Kids(ga.s)[1]>>] = N[<<ga.s, Kids(ga.s)[2]>>]
  /\ last.action = Kids(ga.s)[1]

\* C8: a non-root visit of a state without children takes the sampling
\* branch, and puct_select never runs on an empty children list.
C8_NoEmptyPuct ==
  /\ last.err # "ValueError:max"
  /\ (InBody /\ ~cur.is_root /\ Kids(cur.s) = <<>>) => WantsExpand(children, Ns, cur)

\* C9: when generate fails, the exception leaves the top-level search (no
\* call stays pending, nothing is retried) and N, Q and Ns are what they were
\* when that search began: nothing rolled back, nothing backed up on the
\* failed path.
C9_FailurePropagates ==
  (last.status = "raised" /\ last.err = "GenerateError") =>
    /\ pc = "done"
    /\ stack = <<>>
    /\ call.fails = 1
    /\ call.gens <= call.d
    /\ call.backs = 0
    /\ N = snap.N
    /\ Q = snap.Q
    /\ Ns = snap.Ns

\* generate failed below the top of a search, after earlier searches had
\* backed up statistics
C9_Witness ==
  /\ last.status = "raised"
  /\ last.err = "GenerateError"
  /\ call.gens = 2
  /\ \E p \in Pairs : N[p] > 0

\* C10: every step other than reset keeps children[s] as a prefix of its new
\* value, adds at most one action to it, and leaves it free of duplicates.
C10_AppendOnly ==
  [][last'.op # "reset" =>
       \A s \in States :
         /\ s \in DOMAIN children => s \in DOMAIN children'
         /\ IsPrefix(Kids(s), ChildrenOf(children', s))
         /\ Len(ChildrenOf(children', s)) <= Len(Kids(s)) + 1
         /\ NoDup(ChildrenOf(children', s))]_vars

\* an action already present was sampled again at a state with two children
C10_Witness ==
  /\ call.dups >= 1
  /\ \E s \in States : Len(Kids(s)) = 2

====
